---- MODULE Spec2Model ----
(***************************************************************************)
(* snippetbox: the snippet store (internal/models/snippets.go), the HTTP   *)
(* handlers built on it (home, snippetView, snippetCreate) and the         *)
(* start-up sequence of main (cmd/web/main.go).                            *)
(*                                                                         *)
(* Time is counted in whole days: UTC_TIMESTAMP() is the variable now, and *)
(* DATE_ADD(t, INTERVAL n DAY) is t + n.                                   *)
(*                                                                         *)
(* Four specifications share the store's operators:                        *)
(*   Spec            the store's API called with arbitrary arguments       *)
(*   ServeSpec       HTTP requests handled by the three handlers           *)
(*   ConcurrentSpec  create requests interleaved statement by statement    *)
(*   BootSpec        main's start-up against an arbitrary initial schema   *)
(***************************************************************************)
EXTENDS Integers, Sequences, FiniteSets, TLC

VARIABLES
    rows,     \* the snippets table, in insertion order
    nextId,   \* the table's AUTO_INCREMENT counter
    now,      \* the database server's clock, UTC_TIMESTAMP(), in days
    last,     \* the call or response that the last step produced
    inserted, \* history: id returned by a successful Insert -> its arguments
    reqs,     \* ConcurrentSpec: each create request's position in its handler
    schema,   \* BootSpec: the tables and indexes that exist
    boot      \* BootSpec: main's position, its err variable and its log

vars == <<rows, nextId, now, last, inserted, reqs, schema, boot>>

----
(* Bounds of the model. *)

\* AUTO_INCREMENT values handed out before the model stops inserting.
MaxIds == 3
\* Days the clock runs in Spec.
MaxTime == 4
\* Create requests the server receives in ConcurrentSpec.
MaxReqs == 2
\* Times main is started in BootSpec.
MaxStarts == 2
\* Days the clock runs in ServeSpec: long enough for a created snippet to expire.
MaxServeTime == 8

----
(* Values. *)

\* title VARCHAR(100)
TitleMax == 100
LongTitle == "LLLLLLLLLLLLLLLLLLLLLLLLLLLLLLLLLLLLLLLLLLLLLLLLLLLLLLLLLLLLLLLLLLLLLLLLLLLLLLLLLLLLLLLLLLLLLLLLLLLLL"
\* The zero time.Time of an empty Snippet{}; the clock starts after it.
ZeroTime == 0

nil == "nil"
ErrNoRecord == "models: no matching record found"
ErrNoRows == "sql: no rows in result set"
ErrBadConn == "driver: bad connection"
ErrDataTooLong == "Error 1406: Data too long for column 'title'"
ErrLimit == "Error 1210: Incorrect arguments to mysqld_stmt_execute"

\* Snippet{}
EmptySnippet ==
    [ID |-> 0, Title |-> "", Content |-> "", Created |-> ZeroTime, Expires |-> ZeroTime]

Snippet(id, title, content, created, expires) ==
    [ID |-> id, Title |-> title, Content |-> content, Created |-> created, Expires |-> expires]

\* Arguments the store's API is called with in Spec.
Titles == {"O'Neil", LongTitle}
Contents == {"World"}
ExpiryDays == {0, 2}
\* What the connection does to a statement: it runs, it is refused before it
\* runs, or (an INSERT) it is aborted after its AUTO_INCREMENT value was drawn.
Faults == {"none", "refused", "aborted"}
QueryFaults == {"none", "refused"}
\* app.snippets.Latest(20)
HomeLimit == 20
Limits == {-1, 0, 1, HomeLimit}

----
(* The store: internal/models/snippets.go. *)

Min(a, b) == IF a < b THEN a ELSE b

\* Mutant of Visible: the comparison admits the instant of expiry.
VisibleInclusive(s) == s.Expires >= now

\* WHERE expires > UTC_TIMESTAMP()
Visible(s) == s.Expires > now

\* Mutant of ExecInsert: title and content bound to each other's placeholder.
ExecInsertArgsSwapped(title, content, expires, fault) ==
    IF fault = "refused"
    THEN [err |-> ErrBadConn, lastInsertId |-> 0, rows |-> rows, nextId |-> nextId]
    ELSE IF fault = "aborted"
    THEN [err |-> ErrBadConn, lastInsertId |-> 0, rows |-> rows, nextId |-> nextId + 1]
    ELSE IF Len(content) > TitleMax
    THEN [err |-> ErrDataTooLong, lastInsertId |-> 0, rows |-> rows, nextId |-> nextId]
    ELSE [err |-> nil, lastInsertId |-> nextId,
          rows |-> Append(rows, Snippet(nextId, content, title, now, now + expires)),
          nextId |-> nextId + 1]

\* INSERT INTO snippets (title, content, created, expires)
\* VALUES(?, ?, UTC_TIMESTAMP(), DATE_ADD(UTC_TIMESTAMP(), INTERVAL ? DAY))
\* as the server runs it: the sql.Result, and the table and counter it leaves.
ExecInsert(title, content, expires, fault) ==
    IF fault = "refused"
    THEN [err |-> ErrBadConn, lastInsertId |-> 0, rows |-> rows, nextId |-> nextId]
    ELSE IF fault = "aborted"
    THEN [err |-> ErrBadConn, lastInsertId |-> 0, rows |-> rows, nextId |-> nextId + 1]
    ELSE IF Len(title) > TitleMax
    THEN [err |-> ErrDataTooLong, lastInsertId |-> 0, rows |-> rows, nextId |-> nextId]
    ELSE [err |-> nil, lastInsertId |-> nextId,
          rows |-> Append(rows, Snippet(nextId, title, content, now, now + expires)),
          nextId |-> nextId + 1]

\* Mutant of LastInsertId: the id the table handed out last, whichever
\* statement drew it.
LastInsertIdOfTable(result) == nextId - 1

\* result.LastInsertId(): the id carried by this statement's own result.
LastInsertId(result) == result.lastInsertId

\* SnippetModel.Insert
Insert(title, content, expires, fault) ==
    LET result == ExecInsert(title, content, expires, fault)
    IN  IF result.err # nil
        THEN [id |-> 0, err |-> result.err, rows |-> result.rows, nextId |-> result.nextId]
        ELSE [id |-> LastInsertId(result), err |-> nil,
              rows |-> result.rows, nextId |-> result.nextId]

\* m.DB.QueryRow(stmt, id).Scan(...): the first row of
\* SELECT ... WHERE expires > UTC_TIMESTAMP() AND id = ?
QueryRowGet(id, fault) ==
    LET matching == SelectSeq(rows, LAMBDA s : Visible(s) /\ s.ID = id)
    IN  IF fault # "none" THEN [s |-> EmptySnippet, err |-> ErrBadConn]
        ELSE IF matching = <<>> THEN [s |-> EmptySnippet, err |-> ErrNoRows]
        ELSE [s |-> Head(matching), err |-> nil]

\* Mutant of Get: sql.ErrNoRows is handed on as it came.
GetUnmapped(id, fault) ==
    LET q == QueryRowGet(id, fault)
    IN  IF q.err # nil
        THEN [s |-> EmptySnippet, err |-> q.err]
        ELSE [s |-> q.s, err |-> nil]

\* SnippetModel.Get
Get(id, fault) ==
    LET q == QueryRowGet(id, fault)
    IN  IF q.err # nil
        THEN IF q.err = ErrNoRows
             THEN [s |-> EmptySnippet, err |-> ErrNoRecord]
             ELSE [s |-> EmptySnippet, err |-> q.err]
        ELSE [s |-> q.s, err |-> nil]

\* Mutant of OrderByIdDesc: ORDER BY id ASC.
RECURSIVE OrderByIdAsc(_)
OrderByIdAsc(S) ==
    IF S = {} THEN <<>>
    ELSE LET m == CHOOSE s \in S : \A t \in S : t.ID >= s.ID
         IN  <<m>> \o OrderByIdAsc(S \ {m})

\* ORDER BY id DESC
RECURSIVE OrderByIdDesc(_)
OrderByIdDesc(S) ==
    IF S = {} THEN <<>>
    ELSE LET m == CHOOSE s \in S : \A t \in S : t.ID <= s.ID
         IN  <<m>> \o OrderByIdDesc(S \ {m})

\* LIMIT ?
Limit(seq, c) == SubSeq(seq, 1, Min(c, Len(seq)))

\* m.DB.Query(stmt, c) and the rows.Next() loop over
\* SELECT ... WHERE expires > UTC_TIMESTAMP() ORDER BY id DESC LIMIT ?
QueryLatest(c, fault) ==
    IF fault # "none" THEN [rows |-> <<>>, err |-> ErrBadConn]
    ELSE IF c < 0 THEN [rows |-> <<>>, err |-> ErrLimit]
    ELSE [rows |-> Limit(OrderByIdDesc({rows[i] : i \in {j \in 1..Len(rows) : Visible(rows[j])}}), c),
          err |-> nil]

\* SnippetModel.Latest
Latest(c, fault) ==
    LET q == QueryLatest(c, fault)
    IN  IF q.err # nil
        THEN [snippets |-> <<>>, err |-> q.err]
        ELSE [snippets |-> q.rows, err |-> nil]

----
(* Spec: the store's API, called with arbitrary arguments. *)

NoReqs == [r \in 1..MaxReqs |-> [pc |-> "new"]]
AllObjects == {"snippets", "idx_snippets_created", "sessions", "sessions_expiry_idx"}
NoBoot == [pc |-> "off"]

Init ==
    /\ rows = <<>>
    /\ nextId = 1
    /\ now = 1
    /\ last = [op |-> "Init"]
    /\ inserted = <<>>
    /\ reqs = NoReqs
    /\ schema = AllObjects
    /\ boot = NoBoot

StoreInsert ==
    /\ nextId <= MaxIds
    /\ \E title \in Titles, content \in Contents, expires \in ExpiryDays, fault \in Faults :
         LET r == Insert(title, content, expires, fault)
         IN  /\ rows' = r.rows
             /\ nextId' = r.nextId
             /\ last' = [op |-> "Insert", title |-> title, content |-> content,
                         expires |-> expires, fault |-> fault, id |-> r.id, err |-> r.err]
             /\ inserted' = IF r.err = nil
                            THEN inserted @@ (r.id :> [title |-> title, content |-> content,
                                                       expires |-> expires, at |-> now])
                            ELSE inserted
    /\ UNCHANGED <<now, reqs, schema, boot>>

StoreGet ==
    /\ \E id \in 0..(MaxIds + 1), fault \in QueryFaults :
         LET r == Get(id, fault)
         IN  last' = [op |-> "Get", id |-> id, fault |-> fault, s |-> r.s, err |-> r.err]
    /\ UNCHANGED <<rows, nextId, now, inserted, reqs, schema, boot>>

StoreLatest ==
    /\ \E c \in Limits, fault \in QueryFaults :
         LET r == Latest(c, fault)
         IN  last' = [op |-> "Latest", c |-> c, fault |-> fault,
                      snippets |-> r.snippets, err |-> r.err]
    /\ UNCHANGED <<rows, nextId, now, inserted, reqs, schema, boot>>

\* The server's clock advances by a day.
Tick ==
    /\ now < MaxTime
    /\ now' = now + 1
    /\ last' = [op |-> "Tick"]
    /\ UNCHANGED <<rows, nextId, inserted, reqs, schema, boot>>

Next == StoreInsert \/ StoreGet \/ StoreLatest \/ Tick

Spec == Init /\ [][Next]_vars

----
(* The HTTP handlers: home, snippetView and snippetCreate. *)

StatusOK == 200
StatusSeeOther == 303
StatusNotFound == 404
StatusMethodNotAllowed == 405
StatusInternalServerError == 500

MethodPost == "POST"
Methods == {"GET", MethodPost, "DELETE"}

\* The routes of app.routes().
HomePath == "/"
ViewPath == "/snippet/view"
CreatePath == "/snippet/create"
Route(path) ==
    CASE path = ViewPath -> "snippetView"
      [] path = CreatePath -> "snippetCreate"
      [] OTHER -> "home"

\* Request paths that reach the home handler, and raw values of ?id=.
HomePaths == {HomePath, "/snippet"}
Nines == <<"9", "9", "9", "9", "9", "9", "9", "9", "9", "9",
           "9", "9", "9", "9", "9", "9", "9", "9", "9", "9">>
QueryIds == {<<>>, <<"a", "b", "c">>, <<"0">>, <<"-", "1">>, <<"1">>, <<"+", "2">>,
             <<"1", "a">>, Nines}

ErrSyntax == "strconv.Atoi: invalid syntax"
ErrRange == "strconv.Atoi: value out of range"
\* The decimal digits of the largest int, 9223372036854775807.
IntDigits == 19

Digits == <<"0", "1", "2", "3", "4", "5", "6", "7", "8", "9">>
IsDigit(c) == \E d \in 1..10 : Digits[d] = c
DigitVal(c) == (CHOOSE d \in 1..10 : Digits[d] = c) - 1

RECURSIVE DecVal(_)
DecVal(ds) ==
    IF ds = <<>> THEN 0
    ELSE 10 * DecVal(SubSeq(ds, 1, Len(ds) - 1)) + DigitVal(ds[Len(ds)])

\* strconv.Atoi: an optional sign, then one or more decimal digits. A value of
\* more than IntDigits digits is out of range (inputs of exactly IntDigits
\* digits are not drawn).
Atoi(s) ==
    LET signed == s # <<>> /\ s[1] \in {"+", "-"}
        ds == IF signed THEN Tail(s) ELSE s
    IN  IF ds = <<>> \/ \E i \in 1..Len(ds) : ~IsDigit(ds[i])
        THEN [n |-> 0, err |-> ErrSyntax]
        ELSE IF Len(ds) > IntDigits
        THEN [n |-> 0, err |-> ErrRange]
        ELSE [n |-> IF s[1] = "-" THEN 0 - DecVal(ds) ELSE DecVal(ds), err |-> nil]

\* The %d verb of fmt.Sprintf.
RECURSIVE Itoa(_)
Itoa(n) ==
    IF n < 0 THEN <<"-">> \o Itoa(0 - n)
    ELSE IF n < 10 THEN <<Digits[n + 1]>>
    ELSE Itoa(n \div 10) \o <<Digits[(n % 10) + 1]>>

\* An http.ResponseWriter: the WriteHeader calls made on it (the first one is the
\* response's status), the headers set and the body written.
NewResponse == [writes |-> <<>>, Allow |-> "", Location |-> "", body |-> <<>>]
WriteHeader(w, status) == [w EXCEPT !.writes = Append(@, status)]
Status(w) == Head(w.writes)

\* app.notFound, app.serverError and app.clientError (the application's helpers, not among the sources).
clientError(w, status) == WriteHeader(w, status)
notFound(w) == clientError(w, StatusNotFound)
serverError(w) == WriteHeader(w, StatusInternalServerError)

\* template.ParseFiles and ts.ExecuteTemplate: what they can do.
Templates == {"ok", "parseError", "execErrorBeforeWrite", "execErrorAfterWrite"}
\* ts.ExecuteTemplate(w, "base", data)
ExecuteTemplate(w, tmpl, data) ==
    IF tmpl = "ok"
    THEN [w |-> [WriteHeader(w, StatusOK) EXCEPT !.body = <<data>>], err |-> nil]
    ELSE IF tmpl = "execErrorAfterWrite"
    THEN [w |-> WriteHeader(w, StatusOK), err |-> "template: exec error"]
    ELSE [w |-> w, err |-> "template: exec error"]

\* The outcome of a GET handler: the response, whether the store was queried
\* and the error the store returned.
Outcome(w, queried, err) == [w |-> w, queried |-> queried, err |-> err]

\* Mutant of InvalidId: only negative ids are turned away.
InvalidIdNegativeOnly(a) == a.err # nil \/ a.n < 0

\* if err != nil || id < 1
InvalidId(a) == a.err # nil \/ a.n < 1

\* Mutant of MethodNotAllowed: only GET is turned away.
MethodNotAllowedGetOnly(method) == method = "GET"

\* if r.Method != http.MethodPost
MethodNotAllowed(method) == method # MethodPost

\* The arguments snippetCreate passes to Insert.
CreateTitle == "Test Title"
CreateContent == "Test Content"
CreateExpires == 7

\* fmt.Sprintf("/snippet?id=%d", id)
RedirectURL(id) == [path |-> "/snippet", id |-> Itoa(id)]

\* http.Redirect(w, r, url, http.StatusSeeOther)
Redirect(w, url, status) == WriteHeader([w EXCEPT !.Location = url], status)

----
(* ServeSpec: the server handling HTTP requests, a request a step. *)

ServeInit ==
    /\ rows = <<>>
    /\ nextId = 1
    /\ now = 1
    /\ last = [op |-> "Init"]
    /\ inserted = <<>>
    /\ reqs = NoReqs
    /\ schema = AllObjects
    /\ boot = NoBoot

\* application.home
Home ==
    /\ \E path \in HomePaths :
         IF path # HomePath
         THEN last' = [op |-> "home", path |-> path,
                       h |-> Outcome(notFound(NewResponse), FALSE, nil)]
         ELSE \E tmpl \in Templates :
                IF tmpl = "parseError"
                THEN last' = [op |-> "home", path |-> path,
                              h |-> Outcome(serverError(NewResponse), FALSE, nil)]
                ELSE \E fault \in QueryFaults :
                       LET r == Latest(HomeLimit, fault)
                           x == ExecuteTemplate(NewResponse, tmpl, r.snippets)
                       IN  last' = [op |-> "home", path |-> path,
                                    h |-> IF r.err # nil
                                          THEN Outcome(serverError(NewResponse), TRUE, r.err)
                                          ELSE IF x.err # nil
                                          THEN Outcome(serverError(x.w), TRUE, nil)
                                          ELSE Outcome(x.w, TRUE, nil)]
    /\ UNCHANGED <<rows, nextId, now, inserted, reqs, schema, boot>>

\* application.snippetView
SnippetView ==
    /\ \E q \in QueryIds :
         LET a == Atoi(q)
         IN  IF InvalidId(a)
             THEN last' = [op |-> "snippetView", q |-> q,
                           h |-> Outcome(notFound(NewResponse), FALSE, nil)]
             ELSE \E fault \in QueryFaults :
                    LET r == Get(a.n, fault)
                    IN  IF r.err # nil
                        THEN last' = [op |-> "snippetView", q |-> q,
                                      h |-> IF r.err = ErrNoRecord
                                            THEN Outcome(notFound(NewResponse), TRUE, r.err)
                                            ELSE Outcome(serverError(NewResponse), TRUE, r.err)]
                        ELSE \E tmpl \in Templates :
                               LET x == ExecuteTemplate(NewResponse, tmpl, r.s)
                               IN  last' = [op |-> "snippetView", q |-> q,
                                            h |-> IF tmpl = "parseError"
                                                  THEN Outcome(serverError(NewResponse), TRUE, nil)
                                                  ELSE IF x.err # nil
                                                  THEN Outcome(serverError(serverError(x.w)), TRUE, nil)
                                                  ELSE Outcome(x.w, TRUE, nil)]
    /\ UNCHANGED <<rows, nextId, now, inserted, reqs, schema, boot>>

\* What a step of snippetCreate leaves in last: the request, its method, the id
\* Insert returned (0 before it returns, and when it fails), the response so far
\* and whether the handler has returned.
Created(r, method, id, w, done) ==
    [op |-> "snippetCreate", r |-> r, method |-> method, id |-> id, w |-> w, done |-> done]

\* application.snippetCreate
SnippetCreate ==
    /\ \E method \in Methods :
         IF MethodNotAllowed(method)
         THEN /\ last' = Created(0, method, 0,
                                 clientError([NewResponse EXCEPT !.Allow = MethodPost],
                                             StatusMethodNotAllowed), TRUE)
              /\ UNCHANGED <<rows, nextId, inserted>>
         ELSE /\ nextId <= MaxIds
              /\ \E fault \in Faults :
                   LET r == Insert(CreateTitle, CreateContent, CreateExpires, fault)
                   IN  /\ rows' = r.rows
                       /\ nextId' = r.nextId
                       /\ inserted' = IF r.err = nil
                                      THEN inserted @@
                                           (r.id :> [title |-> CreateTitle,
                                                     content |-> CreateContent,
                                                     expires |-> CreateExpires,
                                                     at |-> now, by |-> 0])
                                      ELSE inserted
                       /\ last' = IF r.err # nil
                                  THEN Created(0, method, 0, serverError(NewResponse), TRUE)
                                  ELSE Created(0, method, r.id,
                                               Redirect(NewResponse, RedirectURL(r.id),
                                                        StatusSeeOther), TRUE)
    /\ UNCHANGED <<now, reqs, schema, boot>>

ServeTick ==
    /\ now < MaxServeTime
    /\ now' = now + 1
    /\ last' = [op |-> "Tick"]
    /\ UNCHANGED <<rows, nextId, inserted, reqs, schema, boot>>

ServeNext == Home \/ SnippetView \/ SnippetCreate \/ ServeTick

ServeSpec == ServeInit /\ [][ServeNext]_vars

----
(* ConcurrentSpec: create requests running concurrently. A request runs its *)
(* INSERT (m.DB.Exec) in one step and reads the statement's result and      *)
(* redirects in a later one, so that the requests' statements interleave.   *)

ConcurrentInit == ServeInit

\* application.snippetCreate up to m.DB.Exec inside Insert.
SnippetCreateExec(r) ==
    /\ reqs[r].pc = "new"
    /\ \A p \in 1..(r - 1) : reqs[p].pc # "new"
    /\ \E method \in Methods :
         IF MethodNotAllowed(method)
         THEN /\ last' = Created(r, method, 0,
                                 clientError([NewResponse EXCEPT !.Allow = MethodPost],
                                             StatusMethodNotAllowed), TRUE)
              /\ reqs' = [reqs EXCEPT ![r] = [pc |-> "done"]]
              /\ UNCHANGED <<rows, nextId, inserted>>
         ELSE \E fault \in Faults :
                LET result == ExecInsert(CreateTitle, CreateContent, CreateExpires, fault)
                IN  /\ rows' = result.rows
                    /\ nextId' = result.nextId
                    /\ inserted' = IF Len(result.rows) > Len(rows)
                                   THEN inserted @@
                                        (result.rows[Len(result.rows)].ID :>
                                            [title |-> CreateTitle, content |-> CreateContent,
                                             expires |-> CreateExpires, at |-> now, by |-> r])
                                   ELSE inserted
                    /\ IF result.err # nil
                       THEN /\ last' = Created(r, method, 0, serverError(NewResponse), TRUE)
                            /\ reqs' = [reqs EXCEPT ![r] = [pc |-> "done"]]
                       ELSE /\ last' = Created(r, method, 0, NewResponse, FALSE)
                            /\ reqs' = [reqs EXCEPT ![r] =
                                          [pc |-> "inserted", method |-> method,
                                           result |-> [err |-> result.err,
                                                       lastInsertId |-> result.lastInsertId]]]
    /\ UNCHANGED <<now, schema, boot>>

\* application.snippetCreate from result.LastInsertId() inside Insert on.
SnippetCreateRedirect(r) ==
    /\ reqs[r].pc = "inserted"
    /\ LET id == LastInsertId(reqs[r].result)
       IN  last' = Created(r, reqs[r].method, id,
                           Redirect(NewResponse, RedirectURL(id), StatusSeeOther), TRUE)
    /\ reqs' = [reqs EXCEPT ![r] = [pc |-> "done"]]
    /\ UNCHANGED <<rows, nextId, now, inserted, schema, boot>>

ConcurrentNext ==
    \/ \E r \in 1..MaxReqs : SnippetCreateExec(r)
    \/ \E r \in 1..MaxReqs : SnippetCreateRedirect(r)
    \/ Tick

ConcurrentSpec == ConcurrentInit /\ [][ConcurrentNext]_vars

----
(* Schema bootstrap (internal/models/snippets.go) and main (cmd/web/main.go). *)

ErrNoTable == "Error 1146: Table doesn't exist"
ErrDupKeyName == "Error 1061: Duplicate key name"

\* A DDL statement's outcome: the schema it leaves and its error.
Ddl(objects, err) == [schema |-> objects, err |-> err]

\* CREATE TABLE IF NOT EXISTS <table>
CreateTableIfNotExists(table, fault) ==
    IF fault # "none" THEN Ddl(schema, ErrBadConn)
    ELSE Ddl(schema \cup {table}, nil)

\* CREATE INDEX <index> ON <table>(...)
CreateIndex(index, table, fault) ==
    IF fault # "none" THEN Ddl(schema, ErrBadConn)
    ELSE IF table \notin schema THEN Ddl(schema, ErrNoTable)
    ELSE IF index \in schema THEN Ddl(schema, ErrDupKeyName)
    ELSE Ddl(schema \cup {index}, nil)

\* SnippetModel.CreateSnippetTable
CreateSnippetTable(fault) == CreateTableIfNotExists("snippets", fault)
\* SnippetModel.CreateSnippetIndex
CreateSnippetIndex(fault) == CreateIndex("idx_snippets_created", "snippets", fault)
\* SnippetModel.CreateSessionTable
CreateSessionTable(fault) == CreateTableIfNotExists("sessions", fault)
\* SnippetModel.CreateSessionIndex
CreateSessionIndex(fault) == CreateIndex("sessions_expiry_idx", "sessions", fault)

\* SELECT COUNT(*) FROM information_schema.tables
\* WHERE table_schema = DATABASE() AND table_name IN ('snippets', 'sessions')
CountTables == Cardinality(schema \cap {"snippets", "sessions"})

\* if count > 0 { return nil }
SeedSkips(count) == count > 0

\* The schemas a database can hold: an index exists only on an existing table.
ValidSchemas ==
    {s \in SUBSET AllObjects :
        /\ "idx_snippets_created" \in s => "snippets" \in s
        /\ "sessions_expiry_idx" \in s => "sessions" \in s}

\* The two mains: the one that creates the snippets table and its index
\* itself, and the one that seeds the database when ENV is dev.
BootConfigs ==
    {[build |-> "index", env |-> ""], [build |-> "seed", env |-> "dev"],
     [build |-> "seed", env |-> "prod"]}

\* main at its first statement.
Main(config, starts) ==
    [pc |-> "openDB", build |-> config.build, env |-> config.env, err |-> nil,
     log |-> <<>>, starts |-> starts, indexErr |-> nil]

\* app.logger.Error(err.Error()); os.Exit(1)
Exit(b, err) == [b EXCEPT !.pc = "exited", !.err = err, !.log = Append(@, "ERROR")]

----
(* BootSpec: main starting against any schema, one database statement a     *)
(* step; the process may be killed between steps and started again.        *)

BootInit ==
    /\ rows = <<>>
    /\ nextId = 1
    /\ now = 1
    /\ last = [op |-> "Init"]
    /\ inserted = <<>>
    /\ reqs = NoReqs
    /\ schema \in ValidSchemas
    /\ boot \in {Main(c, 1) : c \in BootConfigs}

BootFrame == UNCHANGED <<rows, nextId, now, last, inserted, reqs>>

\* main: the environment and openDB.
MainOpenDB ==
    /\ boot.pc = "openDB"
    /\ \E ok \in BOOLEAN :
         boot' = IF ~ok THEN Exit(boot, ErrBadConn)
                 ELSE IF boot.build = "index" THEN [boot EXCEPT !.pc = "createTable"]
                 ELSE IF boot.env = "dev" THEN [boot EXCEPT !.pc = "seedCount"]
                 ELSE [boot EXCEPT !.pc = "serve"]
    /\ UNCHANGED schema
    /\ BootFrame

\* main: err = app.snippets.CreateSnippetTable(); if err != nil { ... os.Exit(1) }
MainCreateSnippetTable ==
    /\ boot.pc = "createTable"
    /\ \E fault \in QueryFaults :
         LET d == CreateSnippetTable(fault)
         IN  /\ schema' = d.schema
             /\ boot' = IF d.err # nil THEN Exit(boot, d.err)
                        ELSE [boot EXCEPT !.pc = "createIndex", !.err = d.err]
    /\ BootFrame

\* main: app.snippets.CreateSnippetIndex(); if err != nil { app.logger.Warn(...) }
\* The call's result is dropped: err is still the one CreateSnippetTable set.
MainCreateSnippetIndex ==
    /\ boot.pc = "createIndex"
    /\ \E fault \in QueryFaults :
         LET d == CreateSnippetIndex(fault)
         IN  /\ schema' = d.schema
             /\ boot' = [boot EXCEPT !.pc = "serve",
                                     !.indexErr = d.err,
                                     !.log = IF boot.err # nil THEN Append(@, "WARN") ELSE @]
    /\ BootFrame

\* SeedDatabase: the count of existing tables.
SeedCount ==
    /\ boot.pc = "seedCount"
    /\ \E fault \in QueryFaults :
         boot' = IF fault # "none" THEN Exit(boot, ErrBadConn)
                 ELSE IF SeedSkips(CountTables) THEN [boot EXCEPT !.pc = "serve"]
                 ELSE [boot EXCEPT !.pc = "seedSnippetTable"]
    /\ UNCHANGED schema
    /\ BootFrame

\* A creation step of SeedDatabase: on an error SeedDatabase returns it and
\* main exits.
SeedStep(pc, d, next) ==
    /\ boot.pc = pc
    /\ schema' = d.schema
    /\ boot' = IF d.err # nil THEN Exit(boot, d.err) ELSE [boot EXCEPT !.pc = next]
    /\ BootFrame

SeedCreateSnippetTable ==
    \E fault \in QueryFaults :
      SeedStep("seedSnippetTable", CreateSnippetTable(fault), "seedSnippetIndex")

SeedCreateSnippetIndex ==
    \E fault \in QueryFaults :
      SeedStep("seedSnippetIndex", CreateSnippetIndex(fault), "seedSessionTable")

SeedCreateSessionTable ==
    \E fault \in QueryFaults :
      SeedStep("seedSessionTable", CreateSessionTable(fault), "seedSessionIndex")

SeedCreateSessionIndex ==
    \E fault \in QueryFaults :
      SeedStep("seedSessionIndex", CreateSessionIndex(fault), "serve")

\* main: the template cache (seed build), the Info line and ListenAndServe.
MainServe ==
    /\ boot.pc = "serve"
    /\ \E ok \in BOOLEAN :
         boot' = IF ok THEN [boot EXCEPT !.pc = "serving", !.log = Append(@, "INFO")]
                 ELSE Exit(boot, "listen: address already in use")
    /\ UNCHANGED schema
    /\ BootFrame

\* The process is killed.
Kill ==
    /\ boot.pc \notin {"exited", "off"}
    /\ boot' = [boot EXCEPT !.pc = "exited"]
    /\ UNCHANGED schema
    /\ BootFrame

\* The process is started again, against the schema the last run left.
Restart ==
    /\ boot.pc = "exited"
    /\ boot.starts < MaxStarts
    /\ boot' = Main([build |-> boot.build, env |-> boot.env], boot.starts + 1)
    /\ UNCHANGED schema
    /\ BootFrame

BootNext ==
    \/ MainOpenDB
    \/ MainCreateSnippetTable
    \/ MainCreateSnippetIndex
    \/ SeedCount
    \/ SeedCreateSnippetTable
    \/ SeedCreateSnippetIndex
    \/ SeedCreateSessionTable
    \/ SeedCreateSessionIndex
    \/ MainServe
    \/ Kill
    \/ Restart

BootSpec == BootInit /\ [][BootNext]_vars

----
(* Claims about the store, checked under Spec. *)

RowIdx == 1..Len(rows)
RowsWithId(id) == {i \in RowIdx : rows[i].ID = id}
VisibleIdx == {i \in RowIdx : rows[i].Expires > now}

\* C1: a successful Insert(title, content, expiryDays > 0) returns a positive
\* id under which the row is stored, and a Get(id) that the database runs
\* before the expiry time returns the snippet with that id, title and content,
\* created at the time of the insert and expiring expiryDays days later.
C1_InsertThenGet ==
    /\ (last.op = "Insert" /\ last.err = nil) =>
          /\ last.id > 0
          /\ \E i \in RowIdx : rows[i] = Snippet(last.id, last.title, last.content,
                                                 now, now + last.expires)
    /\ (/\ last.op = "Get"
        /\ last.fault = "none"
        /\ last.id \in DOMAIN inserted
        /\ inserted[last.id].expires > 0
        /\ now < inserted[last.id].at + inserted[last.id].expires) =>
          /\ last.err = nil
          /\ last.s.ID = last.id
          /\ last.s.Title = inserted[last.id].title
          /\ last.s.Content = inserted[last.id].content
          /\ last.s.Created = inserted[last.id].at
          /\ last.s.Expires = last.s.Created + inserted[last.id].expires

\* A Get of the second snippet inserted, a day after its insert and a day
\* before its expiry.
C1_Witness ==
    /\ last.op = "Get"
    /\ last.fault = "none"
    /\ last.id \in DOMAIN inserted
    /\ inserted[last.id].expires > 0
    /\ inserted[last.id].at < now
    /\ now < inserted[last.id].at + inserted[last.id].expires
    /\ last.err = nil
    /\ last.id > 1

\* C2: a Get(id) that the database runs for an id with no stored row, or whose
\* row has expires <= now, returns ErrNoRecord and the empty snippet; an error
\* other than ErrNoRecord comes only from a failure of the connection.
C2_GetNotFound ==
    last.op = "Get" =>
      /\ (/\ last.fault = "none"
          /\ \A i \in RowsWithId(last.id) : rows[i].Expires <= now) =>
            /\ last.err = ErrNoRecord
            /\ last.s = EmptySnippet
      /\ (last.err \notin {nil, ErrNoRecord}) => last.fault # "none"

\* A Get of a stored snippet that was visible for a while and has expired.
C2_Witness ==
    /\ last.op = "Get"
    /\ last.fault = "none"
    /\ last.err = ErrNoRecord
    /\ \E i \in RowsWithId(last.id) :
         /\ rows[i].Created < rows[i].Expires
         /\ rows[i].Expires <= now

\* C3: a Latest(n), n >= 0, that the database runs returns no error and at
\* most n snippets, each a stored row with expires > now, in strictly
\* descending id order, leaving out no unexpired row of higher id than a
\* returned one, and as many as n and the unexpired rows allow; with no
\* unexpired row it returns the empty sequence.
C3_Latest ==
    (last.op = "Latest" /\ last.fault = "none" /\ last.c >= 0) =>
      LET L == last.snippets
      IN  /\ last.err = nil
          /\ Len(L) <= last.c
          /\ \A k \in 1..Len(L) : \E i \in VisibleIdx : rows[i] = L[k]
          /\ \A k, m \in 1..Len(L) : k < m => L[k].ID > L[m].ID
          /\ \A i \in VisibleIdx :
               (\E k \in 1..Len(L) : L[k].ID < rows[i].ID) => \E k \in 1..Len(L) : L[k] = rows[i]
          /\ Len(L) = Min(last.c, Cardinality(VisibleIdx))
          /\ (VisibleIdx = {} => L = <<>>)

\* Latest(1) with two unexpired rows and an expired row of a higher id.
C3_Witness ==
    /\ last.op = "Latest"
    /\ last.fault = "none"
    /\ last.c = 1
    /\ Len(last.snippets) = 1
    /\ Cardinality(VisibleIdx) >= 2
    /\ \E i \in RowIdx : rows[i].Expires <= now /\ rows[i].ID > last.snippets[1].ID

\* C4: no step updates or deletes a stored row; a row whose expiry time has
\* passed stays expired, and from then on no Get returns it (the Get answers
\* ErrNoRecord whenever the database runs it) and no Latest contains it,
\* while the row stays stored.
C4_ExpiredStaysUnreachable ==
    [][/\ Len(rows') >= Len(rows)
       /\ \A i \in RowIdx : rows'[i] = rows[i]
       /\ \A i \in RowIdx : rows[i].Expires <= now =>
            /\ rows[i].Expires <= now'
            /\ (last'.op = "Get" /\ last'.id = rows[i].ID) =>
                  /\ last'.err # nil
                  /\ last'.s = EmptySnippet
                  /\ (last'.fault = "none" => last'.err = ErrNoRecord)
            /\ last'.op = "Latest" =>
                  \A k \in 1..Len(last'.snippets) : last'.snippets[k].ID # rows[i].ID
      ]_vars

\* A Latest that returns a snippet and leaves out a stored row that was
\* visible for a while and has expired.
C4_Witness ==
    /\ last.op = "Latest"
    /\ last.fault = "none"
    /\ last.c = HomeLimit
    /\ Len(last.snippets) >= 1
    /\ \E i \in RowIdx :
         /\ rows[i].Created < rows[i].Expires
         /\ rows[i].Expires <= now
         /\ \A k \in 1..Len(last.snippets) : last.snippets[k] # rows[i]

----
(* Claims about the handlers, checked under ServeSpec (C10: ConcurrentSpec). *)

\* C5: a POST to the create endpoint whose insert succeeds answers 303 See
\* Other with a Location that is the detail view, /snippet/view, of the id
\* Insert returned, so that the follow-up GET is routed to snippetView.
C5_RedirectsToDetailView ==
    (last.op = "snippetCreate" /\ last.done /\ last.id > 0) =>
      /\ last.w.writes = <<StatusSeeOther>>
      /\ last.w.Location.path = ViewPath
      /\ Route(last.w.Location.path) = "snippetView"
      /\ Atoi(last.w.Location.id) = [n |-> last.id, err |-> nil]

\* C6: a request to the create endpoint with a method other than POST is
\* answered 405 with Allow: POST, and the step leaves the table and its
\* AUTO_INCREMENT counter as they were.
C6_MethodNotAllowed ==
    [][(last'.op = "snippetCreate" /\ last'.method # MethodPost) =>
         /\ last'.done
         /\ last'.w.writes = <<StatusMethodNotAllowed>>
         /\ last'.w.Allow = MethodPost
         /\ rows' = rows
         /\ nextId' = nextId
      ]_vars

\* A GET to the create endpoint while a snippet is stored.
C6_Witness ==
    /\ last.op = "snippetCreate"
    /\ last.method = "GET"
    /\ last.w.writes = <<StatusMethodNotAllowed>>
    /\ Len(rows) >= 1

\* The raw ?id= values that are well-formed positive integers.
PositiveIds == {<<"1">>, <<"+", "2">>}

\* C7: the detail view answers a missing, malformed or non-positive id with
\* 404 without querying the store; it queries the store for every other id,
\* and answers the store's ErrNoRecord (no row, or an expired one) with 404 and
\* any other store error with 500; each of these is the only status written,
\* and the step leaves the table as it was.
C7_ViewStatus ==
    [][last'.op = "snippetView" =>
         LET h == last'.h
             n == IF last'.q = <<"1">> THEN 1 ELSE 2
         IN  /\ rows' = rows
             /\ nextId' = nextId
             /\ Len(h.w.writes) >= 1
             /\ last'.q \notin PositiveIds =>
                  /\ h.w.writes = <<StatusNotFound>>
                  /\ ~h.queried
             /\ last'.q \in PositiveIds =>
                  /\ h.queried
                  /\ h.err = ErrNoRecord => h.w.writes = <<StatusNotFound>>
                  /\ h.err \notin {nil, ErrNoRecord} => h.w.writes = <<StatusInternalServerError>>
                  /\ (\A i \in RowsWithId(n) : rows[i].Expires <= now) =>
                        /\ h.err # nil
                        /\ Status(h.w) \in {StatusNotFound, StatusInternalServerError}
                  /\ h.w.writes = <<StatusOK>> =>
                        \E i \in RowsWithId(n) : rows[i].Expires > now /\ h.w.body = <<rows[i]>>
      ]_vars

\* A view of snippet 1 after its expiry: the store answers ErrNoRecord, the
\* handler 404.
C7_Witness ==
    /\ last.op = "snippetView"
    /\ last.q = <<"1">>
    /\ last.h.queried
    /\ last.h.err = ErrNoRecord
    /\ last.h.w.writes = <<StatusNotFound>>
    /\ \E i \in RowsWithId(1) : rows[i].Expires <= now

\* C10: under any interleaving of create requests the stored ids are positive
\* and pairwise distinct, the result each INSERT hands its request carries the
\* id of the row that request wrote, and the id a request redirects to is the
\* id Insert returned to it: that of the row this same request wrote.
C10_ConcurrentCreates ==
    /\ \A i \in RowIdx : rows[i].ID > 0
    /\ \A i, j \in RowIdx : i # j => rows[i].ID # rows[j].ID
    /\ \A r \in 1..MaxReqs :
         reqs[r].pc = "inserted" =>
           /\ reqs[r].result.lastInsertId \in DOMAIN inserted
           /\ inserted[reqs[r].result.lastInsertId].by = r
    /\ (last.op = "snippetCreate" /\ last.done /\ last.w.writes = <<StatusSeeOther>>) =>
         LET a == Atoi(last.w.Location.id)
         IN  /\ a.err = nil
             /\ a.n = last.id
             /\ a.n > 0
             /\ a.n \in DOMAIN inserted
             /\ inserted[a.n].by = last.r

\* A request redirects after another request inserted a later row.
C10_Witness ==
    /\ last.op = "snippetCreate"
    /\ last.done
    /\ last.w.writes = <<StatusSeeOther>>
    /\ \E id \in DOMAIN inserted : id > last.id /\ inserted[id].by # last.r

----
(* Claims about start-up, checked under BootSpec. *)

\* C8: when main's creation of the snippet index fails because the index
\* already exists, the failure is logged as a warning and the process goes on
\* to serve requests.
C8_IndexExistsWarned ==
    (boot.build = "index" /\ boot.pc \in {"serve", "serving"}
       /\ boot.indexErr = ErrDupKeyName) =>
      \E k \in 1..Len(boot.log) : boot.log[k] = "WARN"

\* C9: whenever dev-mode start-up gets past SeedDatabase and the server starts
\* serving, the snippets table, the sessions table and both indexes exist.
C9_SeededSchemaComplete ==
    (boot.build = "seed" /\ boot.env = "dev" /\ boot.pc = "serving") =>
      schema = AllObjects

====
